---- MODULE Spec2Model ----
(***************************************************************************)
(* Model of monday_exporter: the cursor-paginated board retrieval           *)
(* (api.py, driven by cli.py), the typed column-value renderer and the      *)
(* workbook builder (excel.py, models.py).                                  *)
(*                                                                          *)
(* Strings the code inspects character by character (sheet titles, display  *)
(* texts) are sequences of one-character strings.                           *)
(***************************************************************************)
EXTENDS Integers, Sequences, FiniteSets, TLC

VARIABLES
    pc,               \* position of cli.main / MondayClient.fetch_board
    session,          \* requests.Session of the client: "none", "open", "closed"
    acquired,         \* number of sessions created so far
    settings,         \* Settings: page_size
    args,             \* main's arguments: board_id, include_subitems
    requests,         \* every request posted on the session, in order
    responses,        \* every response the remote gave, in order
    board_model,      \* fetch_board local: validated metadata (None before)
    items,            \* fetch_board local: accumulated Item list
    cursor,           \* fetch_board local: cursor for the next items request
    raised,           \* exception that left fetch_board / export (NoExc if none)
    board,            \* value returned by fetch_board to main (None if none)
    warned,           \* fetch_board logged "No items retrieved"
    exit_code,        \* process exit status of main (-1 while running)
    rc,               \* renderer harness: phase, column, column_value, result
    wb                \* workbook harness: phase, board, result

vars == <<pc, session, acquired, settings, args, requests, responses,
          board_model, items, cursor, raised, board, warned, exit_code, rc, wb>>

fetchVars == <<pc, session, acquired, settings, args, requests, responses,
               board_model, items, cursor, raised, board, warned, exit_code>>

(***************************************************************************)
(* Bounds                                                                   *)
(***************************************************************************)
\* Largest number of items-page requests the remote answers with a
\* non-empty cursor before it must end the pagination.
MaxPages == 3

(***************************************************************************)
(* Values                                                                   *)
(***************************************************************************)
None == "<None>"            \* Python None / absent key
NoExc == [type |-> "none", kind |-> "none", status |-> 0, detail |-> "none"]

Exc(t, k) == [type |-> t, kind |-> k, status |-> 0, detail |-> "none"]

RuntimeErrorStatus(s, d) ==
    [type |-> "RuntimeError", kind |-> "request_failed", status |-> s, detail |-> d]

\* Item payloads as served by the remote. name = None: the required field
\* is missing, so Item.model_validate rejects the payload.
I1 == [id |-> "1", name |-> "a"]
I2 == [id |-> "2", name |-> "b"]
IBad == [id |-> "3", name |-> None]

\* The item lists one page may carry (duplicates and descending ids included).
PageItemLists ==
    { <<>>, <<I1>>, <<I1, I2>>, <<I2, I1>>, <<I1, I1>>, <<IBad>>, <<I1, IBad>> }

NonEmptyCursors == {"c1", "c2"}
EndCursors == {None, ""}
Cursors == NonEmptyCursors \cup EndCursors

\* Board names the metadata phase may serve (the second one keeps an
\* illegal sheet-title character after sanitizing).
BoardNames == { <<"Q", "1">>, <<"a", "/", "b">> }

PageSizes == {1, 500}

BoardIds == {7}

(***************************************************************************)
(* models.py                                                                *)
(***************************************************************************)
\* Item.model_validate: id and name are required, every other field takes
\* its default.
ItemValid(p) == p.id # None /\ p.name # None

ItemModelValidate(p) ==
    [id |-> p.id, name |-> p.name, group |-> None, creator |-> None,
     column_values |-> <<>>, subitems |-> None]

\* Board.model_validate({**boards[0], "items": []})
BoardValid(p) == p.id # None /\ p.has_name

BoardModelValidate(p) ==
    [id |-> p.id, name |-> p.name, items |-> <<>>]

\* board_model.model_copy(update={"items": items})
ModelCopyItems(b, its) == [b EXCEPT !.items = its]

(***************************************************************************)
(* excel.py: sheet titles and the workbook's sheets                         *)
(***************************************************************************)
MaxTitleLen == 31

SummaryTitle == <<"S", "u", "m", "m", "a", "r", "y">>
DefaultTitle == <<"B", "o", "a", "r", "d">>
InitialSheetTitle == <<"S", "h", "e", "e", "t">>

\* The characters a sheet title must not contain (openpyxl rejects them).
IllegalTitleChars == {"\\", "/", "*", "?", ":", "[", "]"}

\* The pattern r"[\\/*?:\\[\\]]" of _sanitize_sheet_title: a character class
\* holding  \ / * ? : [  (its "\\]" is an escaped backslash followed by the
\* closing bracket of the class), followed by a literal "]".
SanitizeClass == {"\\", "/", "*", "?", ":", "["}

Take(s, n) == IF Len(s) <= n THEN s ELSE SubSeq(s, 1, n)

RECURSIVE ReSub(_, _)
\* re.sub(pattern, "_", title) from position i on: leftmost non-overlapping
\* matches of <class character><"]"> become one "_".
ReSub(title, i) ==
    IF i > Len(title) THEN <<>>
    ELSE IF i < Len(title) /\ title[i] \in SanitizeClass /\ title[i + 1] = "]"
         THEN <<"_">> \o ReSub(title, i + 2)
         ELSE <<title[i]>> \o ReSub(title, i + 1)

SanitizeSheetTitle(title) == Take(ReSub(title, 1), MaxTitleLen)

\* `_sanitize_sheet_title(board.name) or "Board"`
ItemsSheetTitle(name) ==
    LET t == SanitizeSheetTitle(name) IN IF t = <<>> THEN DefaultTitle ELSE t

LowerOf == [S |-> "s", B |-> "b", M |-> "m", Q |-> "q"]
LowerChar(c) == IF c \in DOMAIN LowerOf THEN LowerOf[c] ELSE c
Lower(s) == [i \in 1..Len(s) |-> LowerChar(s[i])]

HasIllegalChar(s) == \E i \in 1..Len(s) : s[i] \in IllegalTitleChars

\* openpyxl avoid_duplicate_name, as reached from build_workbook: a title
\* that equals an existing sheet name ignoring case gets the next free
\* numeric suffix, which is 1 because no existing name carries a number.
AvoidDuplicateName(names, value) ==
    IF \E i \in 1..Len(names) : Lower(names[i]) = Lower(value)
    THEN value \o <<"1">> ELSE value

\* The worksheet title setter used by `items_sheet.title = ...` and by
\* create_sheet: rejects illegal characters with ValueError, renames a
\* duplicate. current is the sheet's title before the assignment.
SetTitle(names, current, value) ==
    IF HasIllegalChar(value)
    THEN [exc |-> Exc("ValueError", "invalid_title"), title |-> current]
    ELSE [exc |-> NoExc,
          title |-> IF current # value THEN AvoidDuplicateName(names, value)
                    ELSE value]

\* ExcelExporter.build_workbook, as far as sheets and titles: Workbook() has
\* one sheet "Sheet"; it is retitled; "Summary" is created after it.
BuildWorkbook(b) ==
    LET first == SetTitle(<<InitialSheetTitle>>, InitialSheetTitle,
                          ItemsSheetTitle(b.name))
    IN  IF first.exc # NoExc
        THEN [exc |-> first.exc, sheets |-> <<>>, active |-> 0]
        ELSE LET second == SetTitle(<<first.title>>, <<>>, SummaryTitle)
             IN  [exc |-> NoExc, sheets |-> <<first.title, second.title>>,
                  active |-> 1]

(***************************************************************************)
(* The remote: what one POST on the session can come back with              *)
(***************************************************************************)
Response(t, s, b, e, d) ==
    [transport |-> t, status |-> s, body |-> b, errors |-> e, data |-> d]

\* The JSON member "data" of a response body: absent, or an object whose
\* "boards" list is given.
NoData == [present |-> FALSE, boards |-> <<>>]
Data(bs) == [present |-> TRUE, boards |-> bs]

\* Remote failures: the request times out or cannot connect; the status is
\* a failure status (body JSON or not); the body of a 200 is not JSON; the
\* body carries "errors".
FailureResponses ==
    { Response(t, 200, "json", FALSE, NoData) : t \in {"timeout", "connection_error"} }
    \cup { Response("ok", s, b, FALSE, NoData) : s \in {401, 500}, b \in {"json", "not_json"} }
    \cup { Response("ok", 200, "not_json", FALSE, NoData) }
    \cup { Response("ok", 200, "json", TRUE, NoData) }

OkResponse(d) == Response("ok", 200, "json", FALSE, d)

BoardPayloads ==
    { [id |-> "7", name |-> n, has_name |-> TRUE] : n \in BoardNames }
    \cup { [id |-> "7", name |-> <<>>, has_name |-> FALSE] }

MetadataResponses ==
    FailureResponses
    \cup { OkResponse(NoData), OkResponse(Data(<<>>)) }
    \cup { OkResponse(Data(<<b>>)) : b \in BoardPayloads }

\* Answers to the n-th items request. The remote serves a finite sequence
\* of pages: from the MaxPages-th request on it returns no further cursor.
ItemsResponses(n) ==
    FailureResponses
    \cup { OkResponse(NoData), OkResponse(Data(<<>>)) }
    \cup { OkResponse(Data(<< [items_page |-> [items |-> l, cursor |-> c]] >>)) :
             l \in PageItemLists,
             c \in IF n < MaxPages THEN Cursors ELSE EndCursors }

(***************************************************************************)
(* api.py                                                                   *)
(***************************************************************************)
\* _raise_for_status: response.raise_for_status() raises for 4xx/5xx; the
\* details are the JSON body, or the text when the body is not JSON.
RaiseForStatus(resp) ==
    IF resp.status >= 400
    THEN RuntimeErrorStatus(resp.status,
                            IF resp.body = "json" THEN "json" ELSE "text")
    ELSE NoExc

\* MondayClient.execute on the response the POST produced: the exception it
\* leaves with (NoExc if none) and the dict it returns.
Execute(resp) ==
    IF resp.transport = "timeout"
    THEN [exc |-> Exc("requests.Timeout", "transport"), data |-> NoData]
    ELSE IF resp.transport = "connection_error"
    THEN [exc |-> Exc("requests.ConnectionError", "transport"), data |-> NoData]
    ELSE IF RaiseForStatus(resp) # NoExc
    THEN [exc |-> RaiseForStatus(resp), data |-> NoData]
    ELSE IF resp.body # "json"
    THEN [exc |-> Exc("requests.JSONDecodeError", "transport"), data |-> NoData]
    ELSE IF resp.errors
    THEN [exc |-> Exc("RuntimeError", "api_errors"), data |-> NoData]
    ELSE [exc |-> NoExc, data |-> resp.data]

\* `if not cursor: break`
CursorEnds(c) == c = None \/ c = ""

\* `for item_payload in page_items: items.append(Item.model_validate(...))`
\* The payloads before the first invalid one are appended; the invalid one
\* raises.
FirstInvalid(l) ==
    IF \A i \in 1..Len(l) : ItemValid(l[i]) THEN 0
    ELSE CHOOSE i \in 1..Len(l) :
            ~ItemValid(l[i]) /\ \A j \in 1..(i - 1) : ItemValid(l[j])

ValidatedPrefix(l) ==
    LET k == FirstInvalid(l)
        n == IF k = 0 THEN Len(l) ELSE k - 1
    IN  [i \in 1..n |-> ItemModelValidate(l[i])]

\* A variant that skips items already accumulated.
AppendItemsDedup(acc, l) ==
    acc \o SelectSeq(ValidatedPrefix(l), LAMBDA x : \A i \in 1..Len(acc) : acc[i] # x)

AppendItems(acc, l) == acc \o ValidatedPrefix(l)

ItemsRequests == SelectSeq(requests, LAMBDA r : r.query = "items")

\* MondayClient.__init__ (entered by main's `with`): the session is created.
ClientInit ==
    /\ pc = "main"
    /\ session' = "open"
    /\ acquired' = acquired + 1
    /\ pc' = "fetch_board"
    /\ UNCHANGED <<settings, args, requests, responses, board_model, items,
                   cursor, raised, board, warned, exit_code, rc, wb>>

\* fetch_board, line 157: the metadata request is posted.
SendMetadata ==
    /\ pc = "fetch_board"
    /\ requests' = Append(requests,
          [query |-> "metadata", session |-> session,
           variables |-> [board_id |-> <<args.board_id>>]])
    /\ pc' = "metadata_wait"
    /\ UNCHANGED <<session, acquired, settings, args, responses, board_model,
                   items, cursor, raised, board, warned, exit_code, rc, wb>>

\* A variant that defers the missing-board failure and enters the items loop.
OnNoBoardsDeferred ==
    /\ board_model' = board_model
    /\ items' = <<>>
    /\ cursor' = None
    /\ pc' = "items_loop"
    /\ UNCHANGED raised

\* fetch_board, lines 159-160: `if not boards: raise RuntimeError(...)`.
OnNoBoards ==
    /\ raised' = Exc("RuntimeError", "not_found")
    /\ pc' = "fetch_raised"
    /\ UNCHANGED <<board_model, items, cursor>>

\* fetch_board, lines 157-165: the metadata response arrives.
RecvMetadata ==
    /\ pc = "metadata_wait"
    /\ \E resp \in MetadataResponses :
         LET r == Execute(resp)
             boards == r.data.boards
         IN  /\ responses' = Append(responses, resp)
             /\ IF r.exc # NoExc
                THEN /\ raised' = r.exc
                     /\ pc' = "fetch_raised"
                     /\ UNCHANGED <<board_model, items, cursor>>
                ELSE IF boards = <<>>
                THEN OnNoBoards
                ELSE IF ~BoardValid(boards[1])
                THEN /\ raised' = Exc("pydantic.ValidationError", "board")
                     /\ pc' = "fetch_raised"
                     /\ UNCHANGED <<board_model, items, cursor>>
                ELSE /\ board_model' = BoardModelValidate(boards[1])
                     /\ items' = <<>>
                     /\ cursor' = None
                     /\ pc' = "items_loop"
                     /\ UNCHANGED raised
    /\ UNCHANGED <<session, acquired, settings, args, requests, board, warned,
                   exit_code, rc, wb>>

\* A variant that never passes the cursor on.
ItemsVariablesWithoutCursor ==
    [board_id |-> args.board_id,
     limit |-> settings.page_size,
     cursor |-> None,
     include_subitems |-> args.include_subitems]

\* fetch_board, lines 170-175: the variables of an items request.
ItemsVariables ==
    [board_id |-> args.board_id,
     limit |-> settings.page_size,
     cursor |-> cursor,
     include_subitems |-> args.include_subitems]

\* fetch_board, lines 168-176: the next items request is posted.
SendItems ==
    /\ pc = "items_loop"
    /\ requests' = Append(requests,
          [query |-> "items", session |-> session, variables |-> ItemsVariables])
    /\ pc' = "items_wait"
    /\ UNCHANGED <<session, acquired, settings, args, responses, board_model,
                   items, cursor, raised, board, warned, exit_code, rc, wb>>

\* fetch_board, lines 192-195: the loop is left and the Board is returned.
Return(its) ==
    /\ warned' = (its = <<>>)
    /\ board' = ModelCopyItems(board_model, its)
    /\ pc' = "fetch_returned"
    /\ UNCHANGED raised

\* A variant that posts the failed items request again.
OnItemsRequestFailedRetry(exc) ==
    /\ pc' = "items_loop"
    /\ UNCHANGED <<raised, items, cursor, board, warned>>

\* fetch_board, lines 168-176: execute raised; nothing catches it, so it
\* leaves fetch_board and the accumulated items are dropped with the frame.
OnItemsRequestFailed(exc) ==
    /\ raised' = exc
    /\ pc' = "fetch_raised"
    /\ UNCHANGED <<items, cursor, board, warned>>

\* A variant that treats a missing board envelope as an error.
OnMissingEnvelopeRaise ==
    /\ raised' = Exc("RuntimeError", "not_found")
    /\ pc' = "fetch_raised"
    /\ UNCHANGED <<items, cursor, board, warned>>

\* fetch_board, lines 178-180: `if not boards_payload: break`.
OnMissingEnvelope ==
    /\ Return(items)
    /\ UNCHANGED <<items, cursor>>

\* fetch_board, lines 168-195: an items response arrives.
RecvItems ==
    /\ pc = "items_wait"
    /\ \E resp \in ItemsResponses(Len(ItemsRequests)) :
         LET r == Execute(resp)
             boards_payload == r.data.boards
         IN  /\ responses' = Append(responses, resp)
             /\ IF r.exc # NoExc
                THEN OnItemsRequestFailed(r.exc)
                ELSE IF boards_payload = <<>>
                THEN OnMissingEnvelope
                ELSE LET page_info == boards_payload[1].items_page
                         page_items == page_info.items
                     IN  /\ items' = AppendItems(items, page_items)
                         /\ IF FirstInvalid(page_items) # 0
                            THEN /\ raised' = Exc("pydantic.ValidationError", "item")
                                 /\ pc' = "fetch_raised"
                                 /\ UNCHANGED <<cursor, board, warned>>
                            ELSE /\ cursor' = page_info.cursor
                                 /\ IF CursorEnds(page_info.cursor)
                                    THEN Return(items')
                                    ELSE /\ pc' = "items_loop"
                                         /\ UNCHANGED <<raised, board, warned>>
    /\ UNCHANGED <<session, acquired, settings, args, requests, board_model,
                   exit_code, rc, wb>>

\* A variant that closes the session on the normal path only.
ClientExitOnSuccessOnly ==
    /\ pc \in {"fetch_returned", "fetch_raised"}
    /\ session' = IF pc = "fetch_returned" THEN "closed" ELSE session
    /\ pc' = "after_with"
    /\ UNCHANGED <<acquired, settings, args, requests, responses, board_model,
                   items, cursor, raised, board, warned, exit_code, rc, wb>>

\* MondayClient.__exit__ -> close(): main's `with` block is left, by return
\* or by exception; __exit__ returns None, so an exception keeps propagating.
ClientExit ==
    /\ pc \in {"fetch_returned", "fetch_raised"}
    /\ session' = "closed"
    /\ pc' = "after_with"
    /\ UNCHANGED <<acquired, settings, args, requests, responses, board_model,
                   items, cursor, raised, board, warned, exit_code, rc, wb>>

\* main, lines 79-81: `except Exception` reports the failure and exits 1.
MainExcept ==
    /\ pc = "after_with"
    /\ raised # NoExc
    /\ exit_code' = 1
    /\ pc' = "exit"
    /\ UNCHANGED <<session, acquired, settings, args, requests, responses,
                   board_model, items, cursor, raised, board, warned, rc, wb>>

\* main, lines 83-94: the board is exported; a failure of build_workbook or
\* of workbook.save exits 1.
MainExport ==
    /\ pc = "after_with"
    /\ raised = NoExc
    /\ \E saved \in BOOLEAN :
         LET w == BuildWorkbook(board)
         IN  /\ raised' = IF w.exc # NoExc THEN w.exc
                          ELSE IF ~saved THEN Exc("OSError", "save") ELSE NoExc
             /\ exit_code' = IF raised' = NoExc THEN 0 ELSE 1
    /\ pc' = "exit"
    /\ UNCHANGED <<session, acquired, settings, args, requests, responses,
                   board_model, items, cursor, board, warned, rc, wb>>

NoBoard == [id |-> None, name |-> <<>>, items |-> <<>>]

Idle == [phase |-> "idle"]

Init ==
    /\ pc = "main"
    /\ session = "none"
    /\ acquired = 0
    /\ settings \in [page_size : PageSizes]
    /\ args \in [board_id : BoardIds, include_subitems : BOOLEAN]
    /\ requests = <<>>
    /\ responses = <<>>
    /\ board_model = NoBoard
    /\ items = <<>>
    /\ cursor = None
    /\ raised = NoExc
    /\ board = NoBoard
    /\ warned = FALSE
    /\ exit_code = -1
    /\ rc = Idle
    /\ wb = Idle

Next ==
    \/ ClientInit
    \/ SendMetadata
    \/ RecvMetadata
    \/ SendItems
    \/ RecvItems
    \/ ClientExit
    \/ MainExcept
    \/ MainExport

Spec == Init /\ [][Next]_vars

(***************************************************************************)
(* excel.py / models.py: rendering one column value                         *)
(***************************************************************************)
\* Display texts.
TextEmpty == <<>>
TextIso == <<"2", "0", "2", "4", "-", "0", "1", "-", "1", "5">>
TextFree == <<"J", "a", "n", " ", "1", "5", " ", "2", "0", "2", "4">>
TextTbd == <<"t", "b", "d">>
TextNumber == <<"1", ",", "2", "3", "4", ".", "5", "0">>
TextTwelve == <<"1", "2">>
TextNA == <<"N", "/", "A">>
TextPeople == <<"A", "n", "\n", "B", "o">>
TextV == <<"v">>

Texts == {TextEmpty, TextIso, TextFree, TextTbd, TextNumber, TextTwelve, TextNA,
          TextPeople, TextV}

\* The raw payload `value` of a column value, given by what it is as JSON
\* text: kind "none" (null), "empty" (""), "invalid" (not JSON), "object",
\* "bool", "string". An object may carry "date" (a string) and "checked"
\* ("true", "false" or "string": a non-boolean); a bool carries b.
RawValue(k, hd, d, c, b) ==
    [kind |-> k, has_date |-> hd, date |-> d, checked |-> c, b |-> b]

RawNone == RawValue("none", FALSE, <<>>, "absent", FALSE)

RawValues ==
    { RawNone,
      RawValue("empty", FALSE, <<>>, "absent", FALSE),
      RawValue("invalid", FALSE, <<>>, "absent", FALSE),
      RawValue("string", FALSE, <<>>, "absent", FALSE),
      RawValue("object", FALSE, <<>>, "absent", FALSE) }
    \cup { RawValue("object", TRUE, d, "absent", FALSE) : d \in {TextEmpty, TextIso, TextTbd} }
    \cup { RawValue("object", FALSE, <<>>, c, FALSE) : c \in {"true", "false", "string"} }
    \cup { RawValue("bool", FALSE, <<>>, "absent", b) : b \in BOOLEAN }

ColumnTypes ==
    {"date", "numbers", "numeric", "checkbox", "people", "text", "status", "formula"}

\* Cell values: str, datetime (num = <<year, month, day, hour, minute>>),
\* float (num = <<integer part>>, s = the decimals without trailing zeros),
\* bool.
StrCell(t) == [t |-> "str", s |-> t, num |-> <<>>, b |-> FALSE]
DateCell(n) == [t |-> "datetime", s |-> <<>>, num |-> n, b |-> FALSE]
FloatCell(i, f) == [t |-> "float", s |-> f, num |-> <<i>>, b |-> FALSE]
BoolCell(v) == [t |-> "bool", s |-> <<>>, num |-> <<>>, b |-> v]

Digits == <<"0", "1", "2", "3", "4", "5", "6", "7", "8", "9">>
IsDigit(c) == \E i \in 1..Len(Digits) : Digits[i] = c
DigitVal(c) == (CHOOSE i \in 1..Len(Digits) : Digits[i] = c) - 1
AllDigits(q) == \A i \in 1..Len(q) : IsDigit(q[i])

RECURSIVE ToNat(_)
ToNat(q) ==
    IF q = <<>> THEN 0
    ELSE 10 * ToNat(SubSeq(q, 1, Len(q) - 1)) + DigitVal(q[Len(q)])

NotParsed == [ok |-> FALSE, num |-> <<>>]

IsLeap(y) == (y % 4 = 0 /\ y % 100 # 0) \/ y % 400 = 0
DaysIn(y, m) ==
    IF m = 2 THEN (IF IsLeap(y) THEN 29 ELSE 28)
    ELSE IF m \in {4, 6, 9, 11} THEN 30 ELSE 31

\* dateutil isoparse on a date-only string YYYY-MM-DD: midnight of that day;
\* anything else among the texts raises ValueError.
IsoParse(q) ==
    IF /\ Len(q) = 10
       /\ q[5] = "-" /\ q[8] = "-"
       /\ AllDigits(SubSeq(q, 1, 4)) /\ AllDigits(SubSeq(q, 6, 7))
       /\ AllDigits(SubSeq(q, 9, 10))
       /\ ToNat(SubSeq(q, 6, 7)) \in 1..12
       /\ ToNat(SubSeq(q, 1, 4)) >= 1
       /\ ToNat(SubSeq(q, 9, 10)) \in
             1..DaysIn(ToNat(SubSeq(q, 1, 4)), ToNat(SubSeq(q, 6, 7)))
    THEN [ok |-> TRUE,
          num |-> <<ToNat(SubSeq(q, 1, 4)), ToNat(SubSeq(q, 6, 7)),
                    ToNat(SubSeq(q, 9, 10)), 0, 0>>]
    ELSE NotParsed

\* dateutil parse (free form) on the date texts: reads the ISO form and the
\* "Jan 15 2024" form; the other date texts raise ParserError (a ValueError).
DateutilParse(q) ==
    IF IsoParse(q).ok THEN IsoParse(q)
    ELSE IF q = TextFree THEN [ok |-> TRUE, num |-> <<2024, 1, 15, 0, 0>>]
    ELSE NotParsed

\* ColumnValue.parsed_value: the display text when the payload is None or
\* empty or does not decode, else the decoded payload.
ParsedValue(cv) ==
    IF cv.value.kind \in {"none", "empty", "invalid"}
    THEN [decoded |-> FALSE, text |-> cv.text, json |-> RawNone]
    ELSE [decoded |-> TRUE, text |-> <<>>, json |-> cv.value]

\* _parse_date, lines 220-225: the display text parsed as a free-form date.
ParseDateText(cv) ==
    IF cv.text # <<>> THEN DateutilParse(cv.text) ELSE NotParsed

\* _parse_date: a non-empty "date" member of a decoded object decides alone
\* (isoparse, None on failure); otherwise the display text is parsed.
ParseDate(cv) ==
    LET value == ParsedValue(cv)
    IN  IF /\ value.decoded /\ value.json.kind = "object"
           /\ value.json.has_date /\ value.json.date # <<>>
        THEN IsoParse(value.json.date)
        ELSE ParseDateText(cv)

Remove(q, c) == SelectSeq(q, LAMBDA x : x # c)

RECURSIVE StripTrailingZeros(_)
StripTrailingZeros(q) ==
    IF q # <<>> /\ q[Len(q)] = "0" THEN StripTrailingZeros(SubSeq(q, 1, Len(q) - 1))
    ELSE q

DotAt(q) == IF \E i \in 1..Len(q) : q[i] = "." THEN CHOOSE i \in 1..Len(q) : q[i] = "."
            ELSE Len(q) + 1

\* float(text): digits with at most one decimal point and at least one
\* digit; any other text among the texts raises ValueError.
FloatParse(q) ==
    LET ip == SubSeq(q, 1, DotAt(q) - 1)
        fp == SubSeq(q, DotAt(q) + 1, Len(q))
    IN  IF AllDigits(ip) /\ AllDigits(fp) /\ Len(ip) + Len(fp) > 0
        THEN [ok |-> TRUE, int |-> ToNat(ip), frac |-> StripTrailingZeros(fp)]
        ELSE [ok |-> FALSE, int |-> 0, frac |-> <<>>]

RECURSIVE ReplaceNewlines(_)
\* text.replace("\n", ", ")
ReplaceNewlines(q) ==
    IF q = <<>> THEN <<>>
    ELSE (IF q[1] = "\n" THEN <<",", " ">> ELSE <<q[1]>>) \o ReplaceNewlines(Tail(q))

Rendered(v, h) == [value |-> v, hint |-> h]

\* A variant of the default branch that normalizes line breaks.
PassThroughNormalized(cv) == Rendered(StrCell(ReplaceNewlines(cv.text)), None)

\* _render_column_value, line 206: every other type.
PassThrough(cv) == Rendered(StrCell(cv.text), None)

\* _render_column_value, lines 195-201.
RenderCheckbox(cv) ==
    LET pv == ParsedValue(cv)
        isBool == \/ pv.decoded /\ pv.json.kind = "bool"
                  \/ pv.decoded /\ pv.json.kind = "object"
                        /\ pv.json.checked \in {"true", "false"}
        val == IF pv.json.kind = "bool" THEN pv.json.b ELSE pv.json.checked = "true"
    IN  IF isBool THEN Rendered(BoolCell(val), None)
        ELSE Rendered(StrCell(cv.text), None)

\* _render_column_value(column, column_value); present = FALSE stands for
\* column_value None.
RenderColumnValue(column, present, cv) ==
    IF ~present THEN Rendered(StrCell(<<>>), None)
    ELSE IF column.type = "date"
    THEN IF ParseDate(cv).ok THEN Rendered(DateCell(ParseDate(cv).num), "date")
         ELSE Rendered(StrCell(cv.text), None)
    ELSE IF column.type \in {"numbers", "numeric"}
    THEN LET f == FloatParse(Remove(cv.text, ","))
         IN  IF f.ok THEN Rendered(FloatCell(f.int, f.frac), None)
             ELSE Rendered(StrCell(cv.text), None)
    ELSE IF column.type = "checkbox" THEN RenderCheckbox(cv)
    ELSE IF column.type = "people"
    THEN Rendered(StrCell(ReplaceNewlines(cv.text)), None)
    ELSE PassThrough(cv)

\* The texts each column type is rendered with.
TextsOf(type) ==
    IF type = "date" THEN {TextEmpty, TextIso, TextFree, TextTbd}
    ELSE IF type \in {"numbers", "numeric"} THEN {TextEmpty, TextNumber, TextTwelve, TextNA}
    ELSE IF type = "checkbox" THEN {TextEmpty, TextV}
    ELSE IF type = "people" THEN {TextEmpty, TextPeople, TextV}
    ELSE Texts

NoOut == Rendered(StrCell(<<>>), "<unset>")

RenderInputs ==
    UNION { { [phase |-> "input", column |-> [id |-> "c", type |-> ty],
               present |-> pr, cv |-> [id |-> "c", text |-> tx, value |-> v],
               out |-> NoOut] :
                 tx \in TextsOf(ty), v \in RawValues, pr \in {TRUE} } : ty \in ColumnTypes }
    \cup { [phase |-> "input", column |-> [id |-> "c", type |-> ty],
            present |-> FALSE, cv |-> [id |-> "c", text |-> <<>>, value |-> RawNone],
            out |-> NoOut] : ty \in ColumnTypes }

FetchIdle ==
    /\ pc = "idle"
    /\ session = "none"
    /\ acquired = 0
    /\ settings = [page_size |-> 500]
    /\ args = [board_id |-> 7, include_subitems |-> FALSE]
    /\ requests = <<>>
    /\ responses = <<>>
    /\ board_model = NoBoard
    /\ items = <<>>
    /\ cursor = None
    /\ raised = NoExc
    /\ board = NoBoard
    /\ warned = FALSE
    /\ exit_code = -1

InitRender ==
    /\ FetchIdle
    /\ wb = Idle
    /\ rc \in RenderInputs

\* One call of _render_column_value.
Render ==
    /\ rc.phase = "input"
    /\ rc' = [rc EXCEPT !.phase = "done",
                        !.out = RenderColumnValue(rc.column, rc.present, rc.cv)]
    /\ UNCHANGED <<fetchVars, wb>>

NextRender == Render

SpecRender == InitRender /\ [][NextRender]_vars

(***************************************************************************)
(* excel.py: building the workbook of one board                             *)
(***************************************************************************)
RECURSIVE Pad(_)
Pad(n) == IF n <= 0 THEN <<>> ELSE <<"a">> \o Pad(n - 1)

NameCores ==
    { <<>>,
      <<"M", "y", "/", "B", "o", "a", "r", "d", ":", "Q", "1">>,
      <<"Q", "1", " ", "P", "l", "a", "n">>,
      <<"S", "u", "m", "m", "a", "r", "y">>,
      <<"s", "u", "m", "m", "a", "r", "y">>,
      <<"B", "o", "a", "r", "d">>,
      <<"a", "/", "]", "b">>,
      <<"x", "[", "]", "y">>,
      <<"[", "[", "]", "]">>,
      <<"\\", "]">>,
      <<"*", "?">>,
      <<"]">>,
      <<":", "]">> }

\* Board names: a core, alone or padded before or after up to and beyond
\* the maximum title length.
PadLens == {0, MaxTitleLen - 2, MaxTitleLen - 1, MaxTitleLen, MaxTitleLen + 1}

WorkbookBoardNames ==
    { Pad(k) \o c : c \in NameCores, k \in PadLens }
    \cup { c \o Pad(k) : c \in NameCores, k \in PadLens }

NoWorkbook == [exc |-> NoExc, sheets |-> <<>>, active |-> 0]

InitWorkbook ==
    /\ FetchIdle
    /\ rc = Idle
    /\ wb \in { [phase |-> "input", board |-> [id |-> "7", name |-> n, items |-> <<>>],
                 title |-> <<>>, result |-> NoWorkbook] : n \in WorkbookBoardNames }

\* One call of ExcelExporter.build_workbook; title is the value assigned to
\* items_sheet.title.
Build ==
    /\ wb.phase = "input"
    /\ wb' = [wb EXCEPT !.phase = "built",
                        !.title = ItemsSheetTitle(wb.board.name),
                        !.result = BuildWorkbook(wb.board)]
    /\ UNCHANGED <<fetchVars, rc>>

NextWorkbook == Build

SpecWorkbook == InitWorkbook /\ [][NextWorkbook]_vars

(***************************************************************************)
(* excel.py: populating the Items sheet                                     *)
(***************************************************************************)
MinWidth == 12
MaxWidth == 48
DateWidth == 22

\* Largest number of items of the board whose sheet is populated.
MaxRows == 2

FixedHeaders ==
    << <<"I", "t", "e", "m", " ", "I", "D">>,
       <<"I", "t", "e", "m", " ", "N", "a", "m", "e">>,
       <<"G", "r", "o", "u", "p">>,
       <<"G", "r", "o", "u", "p", " ", "C", "o", "l", "o", "r">>,
       <<"C", "r", "e", "a", "t", "o", "r">>,
       <<"C", "r", "e", "a", "t", "e", "d", " ", "A", "t">>,
       <<"U", "p", "d", "a", "t", "e", "d", " ", "A", "t">> >>

\* _populate_items_sheet, lines 68-76.
Headers(columns) == FixedHeaders \o [i \in 1..Len(columns) |-> columns[i].title]

Max(a, b) == IF a >= b THEN a ELSE b
Min(a, b) == IF a <= b THEN a ELSE b

\* _populate_items_sheet, lines 81-84: `max(len(cell.value or ""), 12)`.
HeaderWidth(h) == Max(Len(h), MinWidth)

RECURSIVE NatStr(_)
\* str() of a natural number.
NatStr(n) == IF n < 10 THEN <<Digits[n + 1]>>
             ELSE NatStr(n \div 10) \o <<Digits[(n % 10) + 1]>>

\* str(value) of a cell value that is no datetime: the text itself, the
\* float's repr (integer part, point, decimals or 0), True / False.
CellStr(v) ==
    IF v.t = "str" THEN v.s
    ELSE IF v.t = "float"
    THEN NatStr(v.num[1]) \o <<".">> \o (IF v.s = <<>> THEN <<"0">> ELSE v.s)
    ELSE IF v.b THEN <<"T", "r", "u", "e">> ELSE <<"F", "a", "l", "s", "e">>

RECURSIVE MaxLineLen(_, _)
\* max(len(line) for line in text.splitlines()), 0 without lines; cur is the
\* length of the line being read.
MaxLineLen(q, cur) ==
    IF q = <<>> THEN cur
    ELSE IF q[1] = "\n" THEN Max(cur, MaxLineLen(Tail(q), 0))
    ELSE MaxLineLen(Tail(q), cur + 1)

\* _calculate_display_width (a cell is never None here: absent values are "").
CalculateDisplayWidth(v) ==
    IF v.t = "datetime" THEN DateWidth
    ELSE MaxLineLen(CellStr(v), 0) + 2

\* Item.column_value_by_id: the first column value with that id.
HasColumnValue(item, id) ==
    \E i \in 1..Len(item.column_values) : item.column_values[i].id = id

ColumnValueById(item, id) ==
    item.column_values[CHOOSE i \in 1..Len(item.column_values) :
        /\ item.column_values[i].id = id
        /\ \A j \in 1..(i - 1) : item.column_values[j].id # id]

NoColumnValue == [id |-> "", text |-> <<>>, value |-> RawNone]

\* _build_item_row: the seven fixed cells, then one rendered cell per column.
BuildItemRow(item, columns) ==
    << StrCell(item.id),
       StrCell(item.name),
       StrCell(IF item.group.present THEN item.group.title ELSE <<>>),
       StrCell(IF item.group.present THEN item.group.color ELSE <<>>),
       StrCell(IF item.creator.present THEN item.creator.name ELSE <<>>),
       IF item.created_at.present THEN DateCell(item.created_at.num) ELSE StrCell(<<>>),
       IF item.updated_at.present THEN DateCell(item.updated_at.num) ELSE StrCell(<<>>) >>
    \o [i \in 1..Len(columns) |->
          RenderColumnValue(columns[i], HasColumnValue(item, columns[i].id),
                            IF HasColumnValue(item, columns[i].id)
                            THEN ColumnValueById(item, columns[i].id)
                            ELSE NoColumnValue).value]

\* _populate_items_sheet, lines 104-108: the width of one column after a
\* cell of it was appended.
GrowWidth(previous_width, v) ==
    IF CalculateDisplayWidth(v) > previous_width
    THEN Min(CalculateDisplayWidth(v), MaxWidth)
    ELSE previous_width

\* Boards whose Items sheet is populated: no or one board column, with a
\* title around the floor and the cap, and up to MaxRows items.
SheetTitleLens == {0, MinWidth, MinWidth + 1, MaxWidth, MaxWidth + 1}

SheetColumns ==
    { [id |-> "c", title |-> Pad(k), type |-> ty] :
        k \in SheetTitleLens, ty \in {"date", "text"} }

SheetNameLens == {1, MinWidth - 1, MaxWidth - 1}

AbsentGroup == [present |-> FALSE, title |-> <<>>, color |-> <<>>]
AbsentPerson == [present |-> FALSE, name |-> <<>>]
AbsentDate == [present |-> FALSE, num |-> <<>>]

SheetColumnValueLists ==
    { <<>>,
      << [id |-> "c", text |-> TextIso, value |-> RawNone] >>,
      << [id |-> "c", text |-> Pad(MaxWidth), value |-> RawNone] >> }

SheetItems ==
    { [id |-> <<"1">>, name |-> Pad(k), group |-> g, creator |-> AbsentPerson,
       created_at |-> d, updated_at |-> AbsentDate, column_values |-> cvs] :
        k \in SheetNameLens,
        g \in {AbsentGroup, [present |-> TRUE, title |-> Pad(MinWidth), color |-> <<"r">>]},
        d \in {AbsentDate, [present |-> TRUE, num |-> <<2024, 1, 15, 9, 30>>]},
        cvs \in SheetColumnValueLists }

SheetItemLists == UNION { [1..n -> SheetItems] : n \in 0..MaxRows }

InitItemsSheet ==
    /\ FetchIdle
    /\ rc = Idle
    /\ \E cols \in { <<>> } \cup { <<c>> : c \in SheetColumns } :
       \E its \in SheetItemLists :
          wb = [phase |-> "input",
                board |-> [id |-> "7", name |-> <<"Q", "1">>, columns |-> cols,
                           items |-> its],
                rows |-> <<>>, widths |-> <<>>]

\* _populate_items_sheet, lines 66-84: the header row is appended and every
\* column gets its first width.
PopulateHeader ==
    /\ wb.phase = "input"
    /\ LET headers == Headers(wb.board.columns)
       IN  wb' = [wb EXCEPT !.phase = "rows",
                            !.rows = <<headers>>,
                            !.widths = [i \in 1..Len(headers) |-> HeaderWidth(headers[i])]]
    /\ UNCHANGED <<fetchVars, rc>>

\* _populate_items_sheet, lines 86-108: one iteration of the loop over
\* board.items; rows holds the header row and the rows appended so far.
AppendRow ==
    /\ wb.phase = "rows"
    /\ Len(wb.rows) - 1 < Len(wb.board.items)
    /\ LET item == wb.board.items[Len(wb.rows)]
           row == BuildItemRow(item, wb.board.columns)
       IN  wb' = [wb EXCEPT !.rows = Append(wb.rows, row),
                            !.widths = [i \in 1..Len(row) |-> GrowWidth(wb.widths[i], row[i])]]
    /\ UNCHANGED <<fetchVars, rc>>

\* _populate_items_sheet, line 110: the loop is over, the filter is set.
FinishItemsSheet ==
    /\ wb.phase = "rows"
    /\ Len(wb.rows) - 1 = Len(wb.board.items)
    /\ wb' = [wb EXCEPT !.phase = "populated"]
    /\ UNCHANGED <<fetchVars, rc>>

NextItemsSheet ==
    \/ PopulateHeader
    \/ AppendRow
    \/ FinishItemsSheet

SpecItemsSheet == InitItemsSheet /\ [][NextItemsSheet]_vars

(***************************************************************************)
(* Properties of the retrieval (specification Spec)                         *)
(***************************************************************************)
Last(q) == q[Len(q)]

\* The responses to the items requests, in order (the first response of an
\* invocation answers the metadata request).
ItemsResponsesLog == SubSeq(responses, 2, Len(responses))

IsFailure(resp) ==
    \/ resp.transport # "ok"
    \/ resp.status # 200
    \/ resp.body # "json"
    \/ resp.errors

\* A served page: a successful response with a board envelope.
IsPage(resp) == ~IsFailure(resp) /\ resp.data.boards # <<>>
PageItems(resp) == resp.data.boards[1].items_page.items
PageCursor(resp) == resp.data.boards[1].items_page.cursor
IsEndCursor(c) == c \in {None, ""}
AllItemsValid(resp) == \A i \in 1..Len(PageItems(resp)) : PageItems(resp)[i].name # None

AsItem(p) ==
    [id |-> p.id, name |-> p.name, group |-> None, creator |-> None,
     column_values |-> <<>>, subitems |-> None]

RECURSIVE Concatenation(_)
Concatenation(pages) ==
    IF pages = <<>> THEN <<>>
    ELSE Concatenation(SubSeq(pages, 1, Len(pages) - 1))
         \o [i \in 1..Len(PageItems(Last(pages))) |-> AsItem(PageItems(Last(pages))[i])]

BoardReturned == board.id # None
FetchEnded == pc \in {"fetch_returned", "fetch_raised", "after_with", "exit"}

\* C1: when the remote serves pages of valid items, the Board returned holds
\* exactly the items of all pages up to and including the first page with an
\* empty or absent cursor, concatenated in the order received (duplicates
\* kept, no sorting), and no items request follows that page.
C1_PaginationConcatenates ==
    LET pages == ItemsResponsesLog
        served == \A i \in 1..Len(pages) : IsPage(pages[i]) /\ AllItemsValid(pages[i])
    IN  /\ \A i \in 1..Len(pages) :
             (IsPage(pages[i]) /\ AllItemsValid(pages[i]) /\ IsEndCursor(PageCursor(pages[i])))
                => /\ i = Len(pages)
                   /\ Len(ItemsRequests) = i
                   /\ \A j \in 1..(i - 1) : IsPage(pages[j]) /\ ~IsEndCursor(PageCursor(pages[j]))
        /\ (served /\ pages # <<>> /\ IsEndCursor(PageCursor(Last(pages))))
              => /\ BoardReturned
                 /\ board.items = Concatenation(pages)
        /\ (served /\ BoardReturned)
              => /\ pages # <<>>
                 /\ IsEndCursor(PageCursor(Last(pages)))
                 /\ board.items = Concatenation(pages)

\* Two pages ([i1, i2], "c1") and ([i1], "") gave [i1, i2, i1] after two
\* items requests.
C1_Witness ==
    /\ pc = "fetch_returned"
    /\ Len(ItemsRequests) = 2
    /\ Len(ItemsResponsesLog) = 2
    /\ IsPage(ItemsResponsesLog[1]) /\ PageCursor(ItemsResponsesLog[1]) = "c1"
    /\ IsPage(ItemsResponsesLog[2]) /\ PageCursor(ItemsResponsesLog[2]) = ""
    /\ board.items = <<AsItem(I1), AsItem(I2), AsItem(I1)>>

ZeroBoardsMetadata ==
    /\ responses # <<>>
    /\ ~IsFailure(responses[1])
    /\ responses[1].data.boards = <<>>

\* C2: a metadata response with zero boards makes fetch_board fail with the
\* not-found error, and the metadata request is the only request ever sent.
C2_NotFoundBeforeItems ==
    ZeroBoardsMetadata
        => /\ pc \in {"fetch_raised", "after_with", "exit"}
           /\ raised = Exc("RuntimeError", "not_found")
           /\ ~BoardReturned
           /\ Len(requests) = 1
           /\ requests[1].query = "metadata"
           /\ Len(responses) = 1

C2_Witness ==
    /\ ZeroBoardsMetadata
    /\ responses[1].data.present
    /\ pc = "exit"
    /\ exit_code = 1

\* C3: every remote failure in either phase (failure status, errors
\* payload, timeout, connection failure, undecodable body) reaches the
\* caller of fetch_board as the one uniform error type with status/detail;
\* no raw transport exception escapes.
C3_UniformRemoteError ==
    (responses # <<>> /\ IsFailure(Last(responses)))
        => /\ raised.type = "RuntimeError"
           /\ raised.kind \in {"request_failed", "api_errors"}

\* C4 as stated: fail-fast, no partial Board, nothing sent after a failure,
\* and each request for a given cursor is sent at most once.
FailFast ==
    /\ Len(requests) \in {Len(responses), Len(responses) + 1}
    /\ \A k \in 1..Len(responses) :
         IsFailure(responses[k])
            => /\ k = Len(responses)
               /\ Len(requests) = k
               /\ FetchEnded /\ pc # "fetch_returned"
               /\ raised # NoExc
               /\ ~BoardReturned
               /\ exit_code # 0
               /\ pc = "exit" => exit_code = 1

C4_FailFastNoRepeatedCursor ==
    /\ FailFast
    /\ \A i, j \in 1..Len(ItemsRequests) :
         ItemsRequests[i].variables.cursor = ItemsRequests[j].variables.cursor => i = j

\* C4 (amended): fail-fast as stated; a cursor is requested a second time
\* only when the remote itself returned it again in the page just before.
C4_FailFastNoRetry ==
    /\ FailFast
    /\ \A i, j \in 1..Len(ItemsRequests) :
         (i < j /\ ItemsRequests[i].variables.cursor = ItemsRequests[j].variables.cursor)
            => /\ i > 1
               /\ IsPage(ItemsResponsesLog[i - 1])
               /\ IsPage(ItemsResponsesLog[j - 1])
               /\ PageCursor(ItemsResponsesLog[i - 1]) = ItemsRequests[i].variables.cursor
               /\ PageCursor(ItemsResponsesLog[j - 1]) = ItemsRequests[j].variables.cursor

\* The second items request failed after the first page had given items.
C4_Witness ==
    /\ pc = "exit"
    /\ Len(ItemsResponsesLog) = 2
    /\ IsFailure(Last(responses))
    /\ items # <<>>
    /\ ~BoardReturned
    /\ exit_code = 1

\* C5: one session per invocation, closed on every exit path of the `with`
\* block, and never used for a request once closed.
C5_SessionScoped ==
    /\ acquired <= 1
    /\ (pc = "main") <=> (acquired = 0)
    /\ pc \in {"after_with", "exit"} => session = "closed"
    /\ pc \notin {"main", "after_with", "exit"} => session = "open"
    /\ \A i \in 1..Len(requests) : requests[i].session = "open"
    /\ session = "closed" => Len(requests) = Len(responses)

\* An item record failed validation on a later page and the session is closed.
C5_Witness ==
    /\ pc = "after_with"
    /\ raised = Exc("pydantic.ValidationError", "item")
    /\ Len(ItemsResponsesLog) = 2
    /\ session = "closed"
    /\ acquired = 1

MissingEnvelope(resp) == ~IsFailure(resp) /\ resp.data.boards = <<>>

\* C6: an items response without a board envelope ends the pagination and
\* is no error: the Board returned holds exactly the items of the earlier
\* pages (none if it was the first page); zero items is never an error.
C6_MissingEnvelopeEndsPagination ==
    LET pages == ItemsResponsesLog
    IN  /\ \A i \in 1..Len(pages) :
             MissingEnvelope(pages[i])
                => /\ i = Len(pages)
                   /\ Len(ItemsRequests) = i
                   /\ BoardReturned
                   /\ board.items = Concatenation(SubSeq(pages, 1, i - 1))
                   /\ pc \in {"fetch_returned", "after_with", "exit"}
                   /\ pc # "exit" => raised = NoExc
        /\ (BoardReturned /\ board.items = <<>>)
              => /\ warned
                 /\ pc \in {"fetch_returned", "after_with", "exit"}
                 /\ pc # "exit" => raised = NoExc

\* The first items response had no board envelope.
C6_Witness ==
    /\ pc = "fetch_returned"
    /\ Len(ItemsResponsesLog) = 1
    /\ MissingEnvelope(ItemsResponsesLog[1])
    /\ board.items = <<>>
    /\ raised = NoExc

(***************************************************************************)
(* Properties of the sheet title and the workbook (SpecWorkbook)            *)
(***************************************************************************)
MyBoardQ1 == <<"M", "y", "/", "B", "o", "a", "r", "d", ":", "Q", "1">>

\* C7: for every board name the Items-sheet title computed by the builder
\* contains none of the characters \ / * ? : [ ], is at most 31 long, and is
\* the default title when the sanitized name is empty; My/Board:Q1 gives a
\* title without "/" and ":".
C7_TitleSanitized ==
    wb.phase = "built"
        => /\ \A i \in 1..Len(wb.title) :
                wb.title[i] \notin {"\\", "/", "*", "?", ":", "[", "]"}
           /\ Len(wb.title) <= 31
           /\ wb.title # <<>>
           /\ wb.board.name = <<>> => wb.title = DefaultTitle
           /\ wb.board.name = MyBoardQ1
                => \A i \in 1..Len(wb.title) : wb.title[i] \notin {"/", ":"}

\* C10: the workbook returned by build has exactly two sheets, the first
\* named exactly the sanitized board title (or the default), the second
\* named exactly "Summary", also when the first is itself "Summary".
C10_TwoSheetsNamed ==
    (wb.phase = "built" /\ wb.result.exc = NoExc)
        => /\ Len(wb.result.sheets) = 2
           /\ wb.result.sheets[1] = wb.title
           /\ wb.result.sheets[2] = SummaryTitle

(***************************************************************************)
(* Properties of the renderer (SpecRender)                                  *)
(***************************************************************************)
StructuredDateParses(cv) ==
    /\ cv.value.kind = "object"
    /\ cv.value.has_date
    /\ IsoParse(cv.value.date).ok

\* C8: for a date column and a present value: (1) the structured "date"
\* field, if it parses as ISO, is the result with hint "date"; (2) otherwise,
\* also when that field is present but does not parse, the display text
\* parsed as a free-form date is the result with hint "date"; (3) only when
\* both fail the display text is returned with no hint.
C8_DateFallbackChain ==
    (rc.phase = "done" /\ rc.present /\ rc.column.type = "date")
        => rc.out =
             IF StructuredDateParses(rc.cv)
             THEN Rendered(DateCell(IsoParse(rc.cv.value.date).num), "date")
             ELSE IF DateutilParse(rc.cv.text).ok
             THEN Rendered(DateCell(DateutilParse(rc.cv.text).num), "date")
             ELSE Rendered(StrCell(rc.cv.text), None)

\* C9: for a column type outside {date, numbers, numeric, checkbox, people}
\* and a present value, whatever its payload, the result is the display
\* text unchanged with no hint (the renderer is total: it yields a result
\* for every input).
C9_UnknownTypePassThrough ==
    (rc.phase = "done" /\ rc.present
       /\ rc.column.type \notin {"date", "numbers", "numeric", "checkbox", "people"})
        => /\ rc.out.value = [t |-> "str", s |-> rc.cv.text, num |-> <<>>, b |-> FALSE]
           /\ rc.out.hint = None

\* An unknown column type with undecodable JSON and a multi-line text.
C9_Witness ==
    /\ rc.phase = "done"
    /\ rc.present
    /\ rc.column.type = "status"
    /\ rc.cv.value.kind = "invalid"
    /\ rc.cv.text = TextPeople
    /\ rc.out.value.s = TextPeople

(***************************************************************************)
(* Properties of the Items sheet (SpecItemsSheet)                           *)
(***************************************************************************)
RECURSIVE WidestCell(_, _)
\* The widest content of column c in the data rows of rows (the first row
\* is the header): a date counts DateWidth, any other cell its display width.
WidestCell(rows, c) ==
    IF Len(rows) <= 1 THEN 0
    ELSE Max(CalculateDisplayWidth(rows[Len(rows)][c]),
             WidestCell(SubSeq(rows, 1, Len(rows) - 1), c))

Clamp(w) == Max(12, Min(w, 48))

\* C11: once the header row is written, and after every appended row, each
\* column's width lies between the floor 12 and the cap 48 and equals the
\* widest content seen so far in the column, header included, clamped to
\* that range (a date cell counting 22), whatever the title and cell lengths.
C11_WidthsClamped ==
    wb.phase \in {"rows", "populated"}
        => \A c \in 1..Len(wb.widths) :
              /\ wb.widths[c] >= 12
              /\ wb.widths[c] <= 48
              /\ wb.widths[c] = Clamp(Max(Len(wb.rows[1][c]), WidestCell(wb.rows, c)))

(***************************************************************************)
(* Cursor chaining (specification Spec)                                     *)
(***************************************************************************)
\* C12: the first items request carries no cursor; the (n+1)-th items
\* request is sent only after the n-th response arrived and carries exactly
\* the cursor of that response; board id, page-size limit and
\* include-subitems flag are the same in every items request.
C12_CursorChaining ==
    LET reqs == ItemsRequests
        resps == ItemsResponsesLog
    IN  /\ Len(reqs) <= Len(resps) + 1
        /\ reqs # <<>> => reqs[1].variables.cursor = None
        /\ \A n \in 1..(Len(reqs) - 1) :
             /\ IsPage(resps[n])
             /\ reqs[n + 1].variables.cursor = PageCursor(resps[n])
        /\ \A n \in 1..Len(reqs) :
             /\ reqs[n].variables.board_id = args.board_id
             /\ reqs[n].variables.limit = settings.page_size
             /\ reqs[n].variables.include_subitems = args.include_subitems

\* Three items requests were sent, with no cursor, then "c1", then "c2".
C12_Witness ==
    /\ Len(ItemsRequests) = 3
    /\ Len(ItemsResponsesLog) = 2
    /\ ItemsRequests[1].variables.cursor = None
    /\ PageCursor(ItemsResponsesLog[1]) = "c1"
    /\ ItemsRequests[2].variables.cursor = "c1"
    /\ PageCursor(ItemsResponsesLog[2]) = "c2"
    /\ ItemsRequests[3].variables.cursor = "c2"
    /\ ItemsRequests[3].variables.include_subitems

====
